---- MODULE Spec2Model ----
(***************************************************************************)
(* lafkpages/imgbb-full, src/index.ts: a client of the ImgBB JSON API.     *)
(*                                                                         *)
(* The module-level credentials IMGBB_KEY, IMGBB_COOKIE, IMGBB_USERNAME    *)
(* are the only state kept between calls.  config() is synchronous;        *)
(* apiRequest, uploadImage and removeImages are async functions.  An       *)
(* async function runs synchronously up to its first await and each        *)
(* continuation runs to completion, so every action below is one such      *)
(* synchronous segment.  A config() call may happen between any two        *)
(* segments.                                                               *)
(***************************************************************************)
EXTENDS Integers, Sequences, FiniteSets, TLC

(***************************************************************************)
(* Bounds of the model.                                                    *)
(***************************************************************************)
\* number of config() calls in one behaviour
MaxConfigs == 2
\* longest identifier array handed to removeImages
MaxIds == 2

(***************************************************************************)
(* JavaScript values.                                                      *)
(***************************************************************************)
\* the value undefined (also what destructuring yields for a missing field)
Undef == "<undefined>"
\* an own property that is not present in an options object at all
Absent == "<absent>"

\* ToBoolean on a string-or-undefined value: undefined and "" are falsy
Truthy(v) == v # Undef /\ v # Absent /\ v # ""

\* a || b
OrElse(a, b) == IF Truthy(a) THEN a ELSE b

\* reading property p: an absent property reads as undefined
Get(v) == IF v = Absent THEN Undef ELSE v

\* a value inside a template literal
Interp(v) == IF v = Undef THEN "undefined" ELSE v

host == "imgbb.com"
website == "https://" \o host
endpoint == "/json"

OneHour == "PT1H"
SixMonths == "P6M"
Never == ""

(***************************************************************************)
(* State.                                                                  *)
(***************************************************************************)
VARIABLES
  IMGBB_KEY,       \* [v: value, by: number of the config() call that wrote it]
  IMGBB_COOKIE,
  IMGBB_USERNAME,
  nConfig,         \* config() calls made so far
  lastConfig,      \* the argument of the last config() call
  pc,              \* where the one observed call is suspended
  call,            \* the observed call: [fn, arg], and cfg, creds: lastConfig and
                   \* the three variables' values at its entry
  request,         \* what fetch was last called with, or NoRequest
  fetches,         \* fetch invocations made by the observed call
  readBy,          \* the "by" tags of the credentials the call has read
  resp,            \* what fetch settled with, or NoResp
  inner,           \* the promise of the apiRequest made by uploadImage/removeImages
  outcome,         \* the promise of the observed call
  raced            \* a config() call ran while the observed call was in flight

vars == <<IMGBB_KEY, IMGBB_COOKIE, IMGBB_USERNAME, nConfig, lastConfig, pc,
          call, request, fetches, readBy, resp, inner, outcome, raced>>

creds == <<IMGBB_KEY, IMGBB_COOKIE, IMGBB_USERNAME, nConfig, lastConfig>>

(***************************************************************************)
(* config                                                                  *)
(***************************************************************************)
\* the ApiConfig objects handed to config(): two complete ones, the first
\* with any one field missing (undefined) or empty, and the empty object
CompleteConfigs ==
  {[key |-> "k1", cookie |-> "c1", username |-> "u1"],
   [key |-> "k2", cookie |-> "c2", username |-> "u2"]}

Lacking(c) ==
  UNION {{[c EXCEPT !.key = x], [c EXCEPT !.cookie = x], [c EXCEPT !.username = x]} :
           x \in {Undef, ""}}

NoConfig == [key |-> Undef, cookie |-> Undef, username |-> Undef]

ApiConfigs ==
  CompleteConfigs
  \cup Lacking([key |-> "k1", cookie |-> "c1", username |-> "u1"])
  \cup {NoConfig}

\* a plausible slip: only the supplied fields are assigned
configMerge(config, n) ==
  [key |-> IF config.key = Undef THEN IMGBB_KEY ELSE [v |-> config.key, by |-> n],
   cookie |-> IF config.cookie = Undef THEN IMGBB_COOKIE
              ELSE [v |-> config.cookie, by |-> n],
   username |-> IF config.username = Undef THEN IMGBB_USERNAME
                ELSE [v |-> config.username, by |-> n]]

\* ({ key: IMGBB_KEY, cookie: IMGBB_COOKIE, username: IMGBB_USERNAME } = config)
\* as the n-th call: the three variables after the destructuring assignment
configAssign(config, n) ==
  [key |-> [v |-> config.key, by |-> n],
   cookie |-> [v |-> config.cookie, by |-> n],
   username |-> [v |-> config.username, by |-> n]]

InFlight == pc \in {"fetch", "errjson", "settled", "json"}

Config(c) ==
  /\ nConfig < MaxConfigs
  /\ LET new == configAssign(c, nConfig + 1) IN
       /\ IMGBB_KEY' = new.key
       /\ IMGBB_COOKIE' = new.cookie
       /\ IMGBB_USERNAME' = new.username
  /\ nConfig' = nConfig + 1
  /\ lastConfig' = c
  /\ raced' = (raced \/ InFlight)
  /\ UNCHANGED <<pc, call, request, fetches, readBy, resp, inner, outcome>>

(***************************************************************************)
(* ensureCreds                                                             *)
(***************************************************************************)
\* a plausible slip: only the key is tested
credsConfiguredKeyOnly == Truthy(IMGBB_KEY.v)

\* the negation of ensureCreds' throw condition
credsConfigured ==
  Truthy(IMGBB_KEY.v) /\ Truthy(IMGBB_COOKIE.v) /\ Truthy(IMGBB_USERNAME.v)

CredsError ==
  [name |-> "Error",
   message |-> "ImgBB credentials not configured, please use config()"]

\* the tags of IMGBB_KEY, IMGBB_COOKIE and IMGBB_USERNAME as read now
AllTags == {IMGBB_KEY.by, IMGBB_COOKIE.by, IMGBB_USERNAME.by}

(***************************************************************************)
(* Promises, errors, responses.                                            *)
(***************************************************************************)
UndefValue == [kind |-> "undefined"]
NoError == [name |-> "", message |-> ""]

Pending == [state |-> "pending", value |-> UndefValue, error |-> NoError]
Fulfilled(v) == [state |-> "fulfilled", value |-> v, error |-> NoError]
Rejected(e) == [state |-> "rejected", value |-> UndefValue, error |-> e]

\* what fetch itself rejects with when the transport fails
TransportError == [name |-> "TypeError", message |-> "fetch failed"]
\* what Response.json() rejects with when the body is not JSON (or is empty)
ParseError == [name |-> "SyntaxError", message |-> "Unexpected end of JSON input"]

\* the JSON documents a body may hold: null, or an object with or without an
\* "error" member, itself with or without a "message"
NullDoc == [kind |-> "json", type |-> "null", hasError |-> FALSE, message |-> Undef]
ObjectDoc == [kind |-> "json", type |-> "object", hasError |-> FALSE, message |-> Undef]
ErrorDoc(m) == [kind |-> "json", type |-> "object", hasError |-> TRUE, message |-> m]
BadToken == ErrorDoc("bad token")

JsonDocs == {NullDoc, ObjectDoc, ErrorDoc(Undef), ErrorDoc(""), BadToken}

NotJson == [kind |-> "text", type |-> "", hasError |-> FALSE, message |-> Undef]

\* what fetch settles with: a rejection, or a Response with a status and a body
Failure == [kind |-> "failure", status |-> 0, body |-> NotJson]

Settlements ==
  {Failure}
  \cup [kind : {"response"}, status : {200}, body : {ObjectDoc, NotJson}]
  \cup [kind : {"response"}, status : {400}, body : JsonDocs \cup {NotJson}]
  \cup [kind : {"response"}, status : {500}, body : {BadToken, NotJson}]

NoResp == [kind |-> "none", status |-> 0, body |-> NotJson]

\* Response.ok
ok(r) == r.status \in 200..299

\* the promise of Response.json()
json(r) == IF r.body.kind = "json" THEN Fulfilled(r.body) ELSE Rejected(ParseError)

(***************************************************************************)
(* FormData.  An entry is a name, a value and (for a Blob value) the       *)
(* filename; set() replaces the first entry of that name and removes the   *)
(* others, or appends when there is none.                                  *)
(***************************************************************************)
Entry(n, v) == [name |-> n, value |-> v, filename |-> Undef]
FileEntry(n, blob, f) ==
  [name |-> n, value |-> "[Blob " \o blob.type \o "]",
   filename |-> IF f = Undef THEN "blob" ELSE f]

NewFormData == <<>>

Names(fd) == {fd[i].name : i \in 1..Len(fd)}

\* FormData.prototype.set
fdSet(fd, e) ==
  IF e.name \in Names(fd)
  THEN LET first == CHOOSE i \in 1..Len(fd) :
                      /\ fd[i].name = e.name
                      /\ \A j \in 1..(i - 1) : fd[j].name # e.name
           before == SubSeq(fd, 1, first - 1)
           after == SelectSeq(SubSeq(fd, first + 1, Len(fd)),
                              LAMBDA x : x.name # e.name)
       IN before \o <<e>> \o after
  ELSE Append(fd, e)

\* FormData.prototype.getAll
getAll(fd, n) ==
  LET hits == SelectSeq(fd, LAMBDA x : x.name = n)
  IN [i \in 1..Len(hits) |-> hits[i].value]

(***************************************************************************)
(* apiRequest                                                              *)
(***************************************************************************)
NoRequest == [url |-> "", method |-> "", body |-> <<>>, cookie |-> "", origin |-> ""]

\* the ApiOptions a caller may pass (body fixed; an unset field is absent)
CallerBody == <<Entry("action", "list")>>

ApiOptionsSet ==
  [body : {CallerBody},
   username : {Absent, "u9"},
   cookie : {Absent, "c9"},
   origin : {Absent, "https://proxy.test"},
   endpoint : {Absent, "https://proxy.test/api"},
   endpointUseOrigin : BOOLEAN]

\* what uploadImage passes: { body }
OnlyBody(body) ==
  [body |-> body, username |-> Absent, cookie |-> Absent, origin |-> Absent,
   endpoint |-> Absent, endpointUseOrigin |-> FALSE]

\* what removeImages passes: { body, endpointUseOrigin: true }
BodyUseOrigin(body) ==
  [body |-> body, username |-> Absent, cookie |-> Absent, origin |-> Absent,
   endpoint |-> Absent, endpointUseOrigin |-> TRUE]

\* const origin = opts.origin || `https://${opts.username || IMGBB_USERNAME}.${host}`
apiOrigin(opts) ==
  OrElse(opts.origin,
         "https://" \o Interp(OrElse(opts.username, IMGBB_USERNAME.v)) \o "." \o host)

\* a plausible slip: endpointUseOrigin is ignored
apiUrlOnWebsite(opts) == OrElse(opts.endpoint, website \o endpoint)

\* opts.endpoint || `${opts.endpointUseOrigin ? origin : website}${endpoint}`
apiUrl(opts) ==
  OrElse(opts.endpoint,
         (IF opts.endpointUseOrigin THEN apiOrigin(opts) ELSE website) \o endpoint)

\* the arguments of the fetch call
fetchInit(opts) ==
  [url |-> apiUrl(opts),
   method |-> "POST",
   body |-> opts.body,
   cookie |-> OrElse(opts.cookie, IMGBB_COOKIE.v),
   origin |-> apiOrigin(opts)]

\* apiRequest from its entry to its first await: ensureCreds, then fetch
apiRequestEnter(opts) ==
  IF ~credsConfigured
  THEN [promise |-> Rejected(CredsError), fetched |-> 0, request |-> NoRequest]
  ELSE [promise |-> Pending, fetched |-> 1, request |-> fetchInit(opts)]

\* data?.error?.message
errorMessage(data) ==
  IF data.type = "object" /\ data.hasError THEN data.message ELSE Undef

ApiError(status, data) ==
  [name |-> "Error",
   message |-> "response status " \o ToString(status) \o ": "
               \o OrElse(errorMessage(data), "no error message provided")]

(***************************************************************************)
(* uploadImage                                                             *)
(***************************************************************************)
Buffer == [kind |-> "Buffer", type |-> ""]
GifBlob == [kind |-> "Blob", type |-> "image/gif"]

\* Date.now() at the call
Times == {1699999999, 1700000000}

NoOptions ==
  [image |-> Buffer, username |-> Absent, expiration |-> Absent,
   album |-> Absent, name |-> Absent]

\* the ImageUploadOptions a caller may pass: every expiration (absent, present
\* and undefined, or one of the enum's values) with either kind of image and
\* with or without a name, and one record for each other field set
UploadOptionsSet ==
  [image : {Buffer, GifBlob}, username : {Absent},
   expiration : {Absent, Undef, OneHour, SixMonths, Never},
   album : {Absent}, name : {Absent, "photo.jpg"}]
  \cup {[NoOptions EXCEPT !.album = "alb1"],
        [NoOptions EXCEPT !.username = "u9"],
        [NoOptions EXCEPT !.name = "notes"],
        [NoOptions EXCEPT !.name = Undef]}

\* { ...defaults, ...opts }: an own property of opts, even one whose value is
\* undefined, replaces the default
Spread(default, given) == IF given = Absent THEN default ELSE given

\* opts = { username: IMGBB_USERNAME, expiration: SixMonths, name: "image.png", ...opts }
withDefaults(opts) ==
  [image |-> opts.image,
   username |-> Spread(IMGBB_USERNAME.v, opts.username),
   expiration |-> Spread(SixMonths, opts.expiration),
   album |-> Get(opts.album),
   name |-> Spread("image.png", opts.name)]

\* getType of the mime package, on the names used here; null reads as undefined
getType(path) ==
  CASE path = "image.png" -> "image/png"
    [] path = "photo.jpg" -> "image/jpeg"
    [] OTHER -> Undef

\* opts.image instanceof Blob ? opts.image : new Blob([opts.image], { type })
toBlob(image, type) ==
  IF image.kind = "Blob" THEN image
  ELSE [kind |-> "Blob", type |-> IF type = Undef THEN "" ELSE type]

NotBlobError == [name |-> "TypeError", message |-> "opts.image is not a blob"]

\* const type = getType(opts.name || "") || undefined, and the blob made with it
uploadBlob(given) ==
  LET opts == withDefaults(given)
      type == OrElse(getType(OrElse(opts.name, "")), Undef)
  IN toBlob(opts.image, type)

\* the FormData uploadImage builds from the options as given
uploadBody(given, now) ==
  LET opts == withDefaults(given)
      blob == uploadBlob(given)
      b1 == fdSet(NewFormData, Entry("action", "upload"))
      b2 == fdSet(b1, Entry("album_id", OrElse(opts.album, "")))
      b3 == fdSet(b2, Entry("auth_token", IMGBB_KEY.v))
      b4 == fdSet(b3, Entry("expiration", OrElse(opts.expiration, "")))
      b5 == fdSet(b4, FileEntry("source", blob, opts.name))
      b6 == fdSet(b5, Entry("timestamp", ToString(now)))
  IN fdSet(b6, Entry("type", "file"))

(***************************************************************************)
(* removeImages                                                            *)
(***************************************************************************)
IdValues == {"a", "b"}

\* every sequence over IdValues of length 0..MaxIds
IdArrays == UNION {[1..n -> IdValues] : n \in 0..MaxIds}

\* the argument: a string, or an array of strings
IdArguments ==
  {[type |-> "string", str |-> x, ids |-> <<>>] : x \in IdValues \cup {""}}
  \cup {[type |-> "array", str |-> "", ids |-> a] : a \in IdArrays}

\* id.length, of a string or of an array
length(id) == IF id.type = "string" THEN Len(id.str) ELSE Len(id.ids)

\* a plausible slip: the test written as id === ""
lengthIsZeroStringOnly(id) == id.type = "string" /\ id.str = ""

\* id.length == 0
lengthIsZero(id) == length(id) = 0

\* for (const i of id) body.set("deleting[ids][]", i)
RECURSIVE setEach(_, _)
setEach(fd, ids) ==
  IF ids = <<>> THEN fd
  ELSE setEach(fdSet(fd, Entry("deleting[ids][]", Head(ids))), Tail(ids))

\* the FormData removeImages builds
removeBody(id) ==
  LET b1 == fdSet(NewFormData, Entry("action", "delete"))
      b2 == fdSet(b1, Entry("auth_token", IMGBB_KEY.v))
  IN IF id.type = "string"
     THEN fdSet(fdSet(fdSet(b2, Entry("single", "true")),
                      Entry("delete", "image")),
                Entry("deleting[id]", id.str))
     ELSE setEach(fdSet(fdSet(fdSet(b2, Entry("from", "list")),
                              Entry("multiple", "true")),
                        Entry("delete", "images")),
                  id.ids)

(***************************************************************************)
(* The calls.  One call is observed at a time, from its entry to the       *)
(* settling of its promise; once the caller has taken the settled promise  *)
(* (Returns) the next call may start.                                      *)
(***************************************************************************)
NoCall == [fn |-> "none", arg |-> <<>>, cfg |-> NoConfig, creds |-> NoConfig]

\* the values of the three variables now
Credentials ==
  [key |-> IMGBB_KEY.v, cookie |-> IMGBB_COOKIE.v, username |-> IMGBB_USERNAME.v]

Init ==
  /\ IMGBB_KEY = [v |-> Undef, by |-> 0]
  /\ IMGBB_COOKIE = [v |-> Undef, by |-> 0]
  /\ IMGBB_USERNAME = [v |-> Undef, by |-> 0]
  /\ nConfig = 0
  /\ lastConfig = NoConfig
  /\ pc = "idle"
  /\ call = NoCall
  /\ request = NoRequest
  /\ fetches = 0
  /\ readBy = {}
  /\ resp = NoResp
  /\ inner = Pending
  /\ outcome = Pending
  /\ raced = FALSE

\* entry of a call: what every call resets
Enter(fn, arg) ==
  /\ pc = "idle"
  /\ call' = [fn |-> fn, arg |-> arg, cfg |-> lastConfig, creds |-> Credentials]
  /\ resp' = NoResp
  /\ raced' = FALSE
  /\ UNCHANGED creds

\* ensureCreds threw in the called function itself: its promise is rejected
Throws(e) ==
  /\ pc' = "done"
  /\ outcome' = Rejected(e)
  /\ inner' = Pending
  /\ request' = NoRequest
  /\ fetches' = 0
  /\ readBy' = {}

\* export async function apiRequest(opts), called directly, up to await fetch
ApiRequest(opts) ==
  /\ Enter("apiRequest", opts)
  /\ LET e == apiRequestEnter(opts) IN
       /\ request' = e.request
       /\ fetches' = e.fetched
       /\ readBy' = IF e.fetched = 1 THEN AllTags ELSE {}
       /\ outcome' = e.promise
       /\ inner' = Pending
       /\ pc' = IF e.promise.state = "pending" THEN "fetch" ELSE "done"

\* uploadImage or removeImages reaching `await apiRequest({ body, ... })`
Delegates(opts) ==
  LET e == apiRequestEnter(opts) IN
    /\ request' = e.request
    /\ fetches' = e.fetched
    /\ readBy' = AllTags
    /\ outcome' = Pending
    /\ inner' = e.promise
    /\ pc' = IF e.promise.state = "pending" THEN "fetch" ELSE "settled"

\* export async function uploadImage(opts), up to await apiRequest
UploadImage(opts, now) ==
  /\ Enter("uploadImage", [opts |-> opts, now |-> now])
  /\ IF ~credsConfigured THEN Throws(CredsError)
     ELSE IF uploadBlob(opts).kind # "Blob" THEN Throws(NotBlobError)
     ELSE Delegates(OnlyBody(uploadBody(opts, now)))

\* export async function removeImages(id), up to return or await apiRequest
RemoveImages(id) ==
  /\ Enter("removeImages", id)
  /\ IF ~credsConfigured THEN Throws(CredsError)
     ELSE IF lengthIsZero(id)
     THEN /\ pc' = "done"
          /\ outcome' = Fulfilled(UndefValue)
          /\ inner' = Pending
          /\ request' = NoRequest
          /\ fetches' = 0
          /\ readBy' = AllTags
     ELSE Delegates(BodyUseOrigin(removeBody(id)))

\* a plausible slip: a failed attempt (a transport failure or a non-2xx
\* status) is sent once more
afterFetchRetry(s) ==
  IF (s.kind = "failure" \/ ~ok(s)) /\ fetches < 2
  THEN [pc |-> "fetch", promise |-> Pending, fetched |-> 1]
  ELSE IF s.kind = "failure"
  THEN [pc |-> "settled", promise |-> Rejected(TransportError), fetched |-> 0]
  ELSE IF ~ok(s) THEN [pc |-> "errjson", promise |-> Pending, fetched |-> 0]
  ELSE [pc |-> "settled", promise |-> Fulfilled(s), fetched |-> 0]

\* apiRequest resuming from `await fetch(...)` with settlement s: a rejection
\* propagates; if (!resp.ok) it awaits resp.json(); else it returns resp
afterFetch(s) ==
  IF s.kind = "failure"
  THEN [pc |-> "settled", promise |-> Rejected(TransportError), fetched |-> 0]
  ELSE IF ~ok(s) THEN [pc |-> "errjson", promise |-> Pending, fetched |-> 0]
  ELSE [pc |-> "settled", promise |-> Fulfilled(s), fetched |-> 0]

\* a plausible slip: the vendor's message is looked up on the body itself
afterErrorJsonTopLevel(r) ==
  IF json(r).state = "rejected" THEN Rejected(json(r).error)
  ELSE Rejected(ApiError(r.status, [json(r).value EXCEPT !.hasError = FALSE]))

\* apiRequest resuming from `await resp.json()` on a non-2xx response r: a
\* rejection of json() propagates; else it throws the "response status" Error
afterErrorJson(r) ==
  IF json(r).state = "rejected" THEN Rejected(json(r).error)
  ELSE Rejected(ApiError(r.status, json(r).value))

\* the promise of apiRequest settles with p: it is the observed call's own
\* promise, or the one uploadImage/removeImages awaits
ApiSettles(p) ==
  IF call.fn = "apiRequest"
  THEN pc' = "done" /\ outcome' = p /\ inner' = inner
  ELSE pc' = "settled" /\ inner' = p /\ outcome' = outcome

\* fetch settles and apiRequest resumes
FetchSettles(s) ==
  /\ pc = "fetch"
  /\ resp' = s
  /\ LET a == afterFetch(s) IN
       /\ fetches' = fetches + a.fetched
       /\ IF a.promise.state = "pending"
          THEN pc' = a.pc /\ UNCHANGED <<inner, outcome>>
          ELSE ApiSettles(a.promise)
  /\ UNCHANGED <<creds, call, request, readBy, raced>>

\* resp.json() settles on a non-2xx response and apiRequest resumes
ErrorJsonSettles ==
  /\ pc = "errjson"
  /\ ApiSettles(afterErrorJson(resp))
  /\ UNCHANGED <<creds, call, request, fetches, readBy, resp, raced>>

\* uploadImage or removeImages resuming from `await apiRequest(...)`:
\* a rejection propagates, else it awaits resp.json()
Resumes ==
  /\ pc = "settled"
  /\ IF inner.state = "rejected"
     THEN pc' = "done" /\ outcome' = Rejected(inner.error)
     ELSE pc' = "json" /\ outcome' = outcome
  /\ UNCHANGED <<creds, call, request, fetches, readBy, resp, inner, raced>>

\* resp.json() settles and uploadImage or removeImages returns the data
JsonSettles ==
  /\ pc = "json"
  /\ pc' = "done"
  /\ outcome' = json(inner.value)
  /\ UNCHANGED <<creds, call, request, fetches, readBy, resp, inner, raced>>

\* the caller takes the settled promise; nothing of the call is kept
Returns ==
  /\ pc = "done"
  /\ pc' = "idle"
  /\ call' = NoCall
  /\ request' = NoRequest
  /\ fetches' = 0
  /\ readBy' = {}
  /\ resp' = NoResp
  /\ inner' = Pending
  /\ outcome' = Pending
  /\ raced' = FALSE
  /\ UNCHANGED creds

Next ==
  \/ \E c \in ApiConfigs : Config(c)
  \/ \E opts \in ApiOptionsSet : ApiRequest(opts)
  \/ \E opts \in UploadOptionsSet, now \in Times : UploadImage(opts, now)
  \/ \E id \in IdArguments : RemoveImages(id)
  \/ \E s \in Settlements : FetchSettles(s)
  \/ ErrorJsonSettles
  \/ Resumes
  \/ JsonSettles
  \/ Returns

Spec == Init /\ [][Next]_vars

(***************************************************************************)
(* Properties.                                                             *)
(***************************************************************************)
Complete(c) == Truthy(c.key) /\ Truthy(c.cookie) /\ Truthy(c.username)

Observed == call.fn # "none"

\* the observed call is removeImages on an array
OnArray == call.fn = "removeImages" /\ call.arg.type = "array"

\* C1: a call of apiRequest, uploadImage or removeImages entered while the key,
\* the cookie or the username is undefined or empty is rejected with the
\* "credentials not configured" error, and fetch is not called
C1_MissingCredentialsRejected ==
  (Observed /\ ~Complete(call.creds)) =>
    /\ pc = "done"
    /\ outcome = Rejected(CredsError)
    /\ fetches = 0
    /\ request = NoRequest

C1_Witness ==
  /\ pc = "done"
  /\ OnArray /\ Len(call.arg.ids) = 0
  /\ call.creds = [key |-> "k1", cookie |-> "c1", username |-> ""]
  /\ outcome = Rejected(CredsError)

\* C2: removeImages on a non-empty array sends from=list, multiple=true,
\* delete=images and the identifiers, in order, as the deleting[ids][] values
C2_EveryIdSent ==
  (OnArray /\ call.arg.ids # <<>> /\ Complete(call.creds)) =>
    /\ getAll(request.body, "from") = <<"list">>
    /\ getAll(request.body, "multiple") = <<"true">>
    /\ getAll(request.body, "delete") = <<"images">>
    /\ getAll(request.body, "deleting[ids][]") = call.arg.ids

\* C3: removeImages on an empty array, credentials configured, is fulfilled
\* with undefined without fetch being called
C3_EmptyArrayNoRequest ==
  (OnArray /\ call.arg.ids = <<>> /\ Complete(call.creds)) =>
    /\ pc = "done"
    /\ outcome = Fulfilled(UndefValue)
    /\ fetches = 0
    /\ request = NoRequest

C3_Witness ==
  /\ OnArray /\ call.arg.ids = <<>>
  /\ Complete(call.creds)
  /\ outcome.state = "fulfilled"

\* the response is non-2xx
NotOk == resp.kind = "response" /\ ~ok(resp)

\* C4: on a non-2xx response whose JSON body has a (non-empty) error.message,
\* the call is never fulfilled and is rejected with the error whose message
\* holds that status and that message
C4_ApiErrorCarriesStatusAndMessage ==
  (NotOk /\ resp.body.kind = "json" /\ resp.body.hasError
         /\ Truthy(resp.body.message)) =>
    /\ outcome.state # "fulfilled"
    /\ pc = "done" =>
         outcome = Rejected([name |-> "Error",
                             message |-> "response status " \o ToString(resp.status)
                                         \o ": " \o resp.body.message])

C4_Witness ==
  /\ pc = "done"
  /\ call.fn = "uploadImage"
  /\ resp.kind = "response" /\ resp.status = 400 /\ resp.body = BadToken
  /\ outcome.state = "rejected"

\* C5: on a non-2xx response whose body is missing or not JSON, the call is
\* rejected with the "response status" error holding the placeholder message
C5_PlaceholderOnUnparseableBody ==
  (pc = "done" /\ NotOk /\ resp.body.kind # "json") =>
    outcome = Rejected([name |-> "Error",
                        message |-> "response status " \o ToString(resp.status)
                                    \o ": no error message provided"])

\* the observed call has an argument that asks for a request
AsksRequest == Observed /\ (call.fn = "removeImages" => length(call.arg) # 0)

\* C6: a call with credentials configured (and, for removeImages, a non-empty
\* argument) calls fetch exactly once, whatever fetch settles with
C6_ExactlyOneRequest ==
  (AsksRequest /\ Complete(call.creds)) => fetches = 1

C6_Witness ==
  /\ pc = "done"
  /\ call.fn = "removeImages"
  /\ resp = Failure
  /\ outcome = Rejected(TransportError)
  /\ fetches = 1

\* the expiration option of the observed uploadImage call
GivenExpiration == call.arg.opts.expiration

\* C7: uploadImage sends expiration=P6M when the option is unset (absent, or
\* present and undefined), PT1H for OneHour and the empty string for Never
C7_ExpirationOnWire ==
  (call.fn = "uploadImage" /\ Complete(call.creds)) =>
    getAll(request.body, "expiration") =
      << CASE GivenExpiration \in {Absent, Undef} -> "P6M"
           [] GivenExpiration = OneHour -> "PT1H"
           [] GivenExpiration = SixMonths -> "P6M"
           [] GivenExpiration = Never -> "" >>

\* the observed call is uploadImage or removeImages and has called fetch
Delegated == call.fn \in {"uploadImage", "removeImages"} /\ request # NoRequest

\* the request carries exactly the key, cookie and username of c
RequestMadeWith(c) ==
  /\ getAll(request.body, "auth_token") = <<c.key>>
  /\ request.cookie = c.cookie
  /\ request.origin = "https://" \o c.username \o ".imgbb.com"

\* C8: the three variables always hold exactly the fields of the last config
\* argument (undefined for a field it lacks), all written by that call; a call
\* entered afterwards is rejected by the credential check when that argument
\* lacks a field, and otherwise sends that argument's values only
C8_LastConfigReplacesAll ==
  /\ Credentials = lastConfig
  /\ AllTags = {nConfig}
  /\ Observed => call.creds = call.cfg
  /\ (Observed /\ ~Complete(call.cfg)) => outcome = Rejected(CredsError)
  /\ Delegated => RequestMadeWith(call.cfg)

\* a complete config() call, a call entered under it, then a config() call
\* lacking the cookie: the earlier cookie is gone
C8_Witness ==
  /\ nConfig = 2
  /\ call.cfg = [key |-> "k1", cookie |-> "c1", username |-> "u1"]
  /\ raced
  /\ lastConfig = [key |-> "k1", cookie |-> Undef, username |-> "u1"]
  /\ IMGBB_COOKIE.v = Undef
  /\ pc = "done"

\* a config() call with other values ran while the observed call, which has
\* called fetch, was in flight
RacedWithConfig == raced /\ request # NoRequest /\ Credentials # call.creds

\* C9 as stated: after a config() call during the flight of a call, the
\* key, cookie and username of its request are not those of one config() call
C9_RaceMixesCredentials ==
  (RacedWithConfig /\ Delegated) =>
    ~(Cardinality(readBy) = 1 /\ RequestMadeWith(call.creds))

\* C9 amended: the credentials of a request are all read in the synchronous
\* segment that enters the call, so they are written by one config() call and
\* are the values held at entry, whatever config() calls run during the flight
C9_RequestFromOneConfig ==
  /\ request # NoRequest => Cardinality(readBy) = 1
  /\ Delegated => RequestMadeWith(call.creds)

C9_Witness ==
  /\ RacedWithConfig
  /\ call.fn = "uploadImage"
  /\ Complete(Credentials)
  /\ pc = "done"
  /\ outcome.state = "fulfilled"

\* the options of the observed apiRequest call
Opts == call.arg

Subdomain(name) == "https://" \o name \o ".imgbb.com"

\* the per-user subdomain origin of the observed apiRequest call
UserOrigin ==
  Subdomain(IF Truthy(Opts.username) THEN Opts.username ELSE call.creds.username)

\* the origin: the override if given, else the per-user subdomain
ResolvedOrigin == IF Truthy(Opts.origin) THEN Opts.origin ELSE UserOrigin

\* the headers of every request, and the hosts uploadImage and removeImages post to
HeadersAndHosts ==
  /\ (call.fn = "apiRequest" /\ request # NoRequest) =>
       /\ request.origin = ResolvedOrigin
       /\ request.cookie =
            IF Truthy(Opts.cookie) THEN Opts.cookie ELSE call.creds.cookie
  /\ (call.fn = "uploadImage" /\ request # NoRequest) =>
       /\ request.url = "https://imgbb.com/json"
       /\ request.origin = Subdomain(call.creds.username)
       /\ request.cookie = call.creds.cookie
  /\ (call.fn = "removeImages" /\ request # NoRequest) =>
       /\ request.url = Subdomain(call.creds.username) \o "/json"
       /\ request.origin = Subdomain(call.creds.username)
       /\ request.cookie = call.creds.cookie

\* C10 as stated: the URL is the override endpoint if given, else the per-user
\* subdomain origin (if endpointUseOrigin) or https://imgbb.com, then /json
C10_UrlFromUserOrigin ==
  /\ HeadersAndHosts
  /\ (call.fn = "apiRequest" /\ request # NoRequest) =>
       request.url =
         IF Truthy(Opts.endpoint) THEN Opts.endpoint
         ELSE (IF Opts.endpointUseOrigin THEN UserOrigin ELSE "https://imgbb.com")
              \o "/json"

\* C10 amended: with endpointUseOrigin the URL is built on the resolved origin,
\* which is the override origin when one is given
C10_UrlFromResolvedOrigin ==
  /\ HeadersAndHosts
  /\ (call.fn = "apiRequest" /\ request # NoRequest) =>
       request.url =
         IF Truthy(Opts.endpoint) THEN Opts.endpoint
         ELSE (IF Opts.endpointUseOrigin THEN ResolvedOrigin ELSE "https://imgbb.com")
              \o "/json"

C10_Witness ==
  /\ call.fn = "apiRequest"
  /\ Opts.origin = "https://proxy.test" /\ Opts.endpointUseOrigin
  /\ Opts.endpoint = Absent
  /\ request.url = "https://proxy.test/json"
  /\ fetches = 1

====
